---- MODULE Spec2Model ----
(***************************************************************************)
(* Model of backup-immich-to-external-disk.py: one run of main(), step by  *)
(* step, against a file system (the backup root and the source volumes),   *)
(* the Immich containers, the operator's answers on stdin and the exit     *)
(* status of every external command.                                       *)
(***************************************************************************)
EXTENDS Integers, Sequences, FiniteSets, TLC

\* ------------------------------------------------------------ bounds
\* Directory names under the backup root are the decimal strings of the
\* numbers FirstDay .. FirstDay + NumNames - 1 ("8", "9", "10", ...), so
\* that the order of names differs from the order of the numbers.
NumNames == 9
FirstDay == 8
\* File names inside a volume are 1 .. MaxFiles.
MaxFiles == 1

\* ------------------------------------------------------------ configuration
MAX_BACKUPS == 7
VOLUMES_TO_BACKUP == <<"library", "postgres">>

Volumes == {VOLUMES_TO_BACKUP[i] : i \in 1..Len(VOLUMES_TO_BACKUP)}
Files == 1..MaxFiles

\* A directory that does not exist, and the possible states of a directory.
Absent == [exists |-> FALSE, files |-> {}]
Dir(fs) == [exists |-> TRUE, files |-> fs]
Contents == {Absent} \cup {Dir(fs) : fs \in SUBSET Files}

\* The name of day d as a string of decimal digits.
DirName(d) == IF d < 10 THEN <<d>> ELSE <<d \div 10, d % 10>>
Names == {DirName(d) : d \in FirstDay..(FirstDay + NumNames - 1)}
\* datetime.now().strftime("%Y-%m-%d"): the name today's backup gets.
Today == DirName(FirstDay + 3)

\* The sets of directories the backup root may hold when the run starts:
\* at most one, or all the names but at most two.
BackupSets ==
  {S \in SUBSET Names : Cardinality(S) <= 1 \/ Cardinality(S) >= NumNames - 2}

\* What the operator may type at a prompt.
Answers ==
  { <<>>, <<"y">>, <<" ", "Y", " ">>, <<"n">>, <<"N">>, <<"n", "o">> }

\* ------------------------------------------------------------ pure functions
Whitespace == {" "}

RECURSIVE LStrip(_)
LStrip(s) ==
  IF s = <<>> THEN s
  ELSE IF Head(s) \in Whitespace THEN LStrip(Tail(s)) ELSE s

RECURSIVE RStrip(_)
RStrip(s) ==
  IF s = <<>> THEN s
  ELSE IF s[Len(s)] \in Whitespace THEN RStrip(SubSeq(s, 1, Len(s) - 1)) ELSE s

\* str.strip()
Strip(s) == RStrip(LStrip(s))

LowerChar(c) ==
  CASE c = "Y" -> "y"
    [] c = "N" -> "n"
    [] OTHER -> c

\* str.lower()
Lower(s) == [i \in 1..Len(s) |-> LowerChar(s[i])]

\* A mutant of Response: the answer is stripped but its case is kept.
ResponseKeepCase(answer) == Strip(answer)

\* input(...).strip().lower()
Response(answer) == Lower(Strip(answer))

\* Path ordering: names compare character by character, a proper prefix first.
RECURSIVE LexLeq(_, _)
LexLeq(a, b) ==
  IF a = <<>> THEN TRUE
  ELSE IF b = <<>> THEN FALSE
  ELSE IF Head(a) < Head(b) THEN TRUE
  ELSE IF Head(a) > Head(b) THEN FALSE
  ELSE LexLeq(Tail(a), Tail(b))

\* sorted(...) of a set of names.
RECURSIVE Sorted(_)
Sorted(S) ==
  IF S = {} THEN <<>>
  ELSE LET m == CHOOSE x \in S : \A y \in S : LexLeq(x, y)
       IN  <<m>> \o Sorted(S \ {m})

\* get_backups(): the directories of the backup root, sorted by name.
get_backups(S) == Sorted(S)

\* A mutant of Oldest: the last of the sorted list instead of the first.
OldestIsLast(bs) == bs[Len(bs)]

\* oldest = backups[0]
Oldest(bs) == bs[1]

\* A mutant of Rsync: the copy without --delete.
RsyncNoDelete(src, dst) == Dir(dst.files \cup src.files)

\* rsync -a --delete src/ dst/: every source file is copied, then every
\* destination file the source does not have is deleted.
Rsync(src, dst) ==
  LET copied == dst.files \cup src.files
  IN  Dir(copied \ {f \in dst.files : f \notin src.files})

\* What a failed rsync may leave in the destination: nothing done, or any
\* state between the old destination and the mirror.
RsyncPartial(src, dst) ==
  {dst} \cup {Dir(fs) : fs \in {x \in SUBSET (dst.files \cup src.files) :
                                   (dst.files \cap src.files) \subseteq x}}

NoVolumes == [v \in Volumes |-> Absent]
FullVolumes == [v \in Volumes |-> Dir(Files)]

\* What a failed shutil.rmtree may leave of a directory's volumes: the
\* directory itself is removed last, so it stays; what is in it may be gone.
RmtreePartial(vols) ==
  {w \in [Volumes -> Contents] :
     \A v \in Volumes : w[v] = Absent \/
        (vols[v].exists /\ w[v].exists /\ w[v].files \subseteq vols[v].files)}

\* ------------------------------------------------------------ state
VARIABLES
  pc,             \* the statement of main() that runs next
  result,         \* how main() ended: "ret0", "ret1", "raised"; "running" before
  euid,           \* os.geteuid()
  mounted,        \* os.path.ismount(MOUNT_POINT)
  backups,        \* the names of the directories under BACKUP_DIR
  destVols,       \* the volumes inside BACKUP_DIR / today
  source,         \* the volumes under SOURCE_DIR
  containers,     \* "up" or "down"
  vol,            \* run_backup's position in VOLUMES_TO_BACKUP
  backup_failed,  \* main()'s local of that name
  lastInput,      \* the line last read from stdin, as typed
  log,            \* prompts shown and external commands run, in order
  backups0,       \* backups, destVols, source and containers when the run
  destVols0,      \* started
  source0,
  containers0

vars == <<pc, result, euid, mounted, backups, destVols, source, containers,
          vol, backup_failed, lastInput, log, backups0, destVols0, source0,
          containers0>>

env == <<euid, mounted, source, backups0, destVols0, source0, containers0>>

Init ==
  /\ pc = "check_root"
  /\ result = "running"
  /\ euid \in {0, 1000}
  /\ mounted \in BOOLEAN
  /\ backups \in BackupSets
  /\ source \in [Volumes -> Contents]
  /\ destVols \in [Volumes -> Contents]
  /\ (Today \notin backups => destVols = NoVolumes)
  \* A root that holds several backups is explored with every source volume
  \* present and full and today's directory, if there, a complete copy; the
  \* contents vary freely when it holds at most one.
  /\ (Cardinality(backups) > 1 =>
        source = FullVolumes /\ destVols \in {NoVolumes, FullVolumes})
  /\ containers \in {"up", "down"}
  /\ vol = 1
  /\ backup_failed = FALSE
  /\ lastInput = <<>>
  /\ log = <<>>
  /\ backups0 = backups
  /\ destVols0 = destVols
  /\ source0 = source
  /\ containers0 = containers

\* main() ends: by return (how = "ret0", "ret1") or by an uncaught error.
End(how) ==
  /\ pc' = "done"
  /\ result' = how

\* ------------------------------------------------------------ main()
\* 0. Check root
CheckRoot ==
  /\ pc = "check_root"
  /\ IF euid # 0 THEN End("ret1") ELSE pc' = "check_mount" /\ UNCHANGED result
  /\ UNCHANGED <<backups, destVols, containers, vol, backup_failed, lastInput,
                 log, env>>

\* A mutant of CheckMount: the error is printed but main() goes on.
CheckMountNoReturn ==
  /\ pc = "check_mount"
  /\ pc' = "inventory"
  /\ UNCHANGED <<result, backups, destVols, containers, vol, backup_failed,
                 lastInput, log, env>>

\* 1. Check mount
CheckMount ==
  /\ pc = "check_mount"
  /\ IF ~mounted THEN End("ret1") ELSE pc' = "inventory" /\ UNCHANGED result
  /\ UNCHANGED <<backups, destVols, containers, vol, backup_failed, lastInput,
                 log, env>>

\* 2. show_disk_stats(); list_backups(): they print and change nothing.
ShowInventory ==
  /\ pc = "inventory"
  /\ pc' = "delete_oldest"
  /\ UNCHANGED <<result, backups, destVols, containers, vol, backup_failed,
                 lastInput, log, env>>

\* 3. maybe_delete_oldest()
maybe_delete_oldest ==
  /\ pc = "delete_oldest"
  /\ LET bs == get_backups(backups) IN
     IF Len(bs) <= MAX_BACKUPS
     THEN /\ pc' = "check_today"
          /\ UNCHANGED <<result, backups, destVols, lastInput, log>>
     ELSE \E answer \in Answers :
          LET oldest == Oldest(bs)
              response == Response(answer)
              asked == Append(log, <<"prompt", "delete", response>>)
          IN  /\ lastInput' = answer
              /\ IF response = <<"y">>
                 THEN \E ok \in BOOLEAN :
                      /\ log' = Append(asked, <<"rmtree", oldest, ok>>)
                      /\ IF ok
                         THEN /\ backups' = backups \ {oldest}
                              /\ destVols' = IF oldest = Today THEN NoVolumes
                                             ELSE destVols
                              /\ pc' = "check_today"
                              /\ UNCHANGED result
                         ELSE /\ backups' = backups
                              /\ destVols' \in (IF oldest = Today
                                                THEN RmtreePartial(destVols)
                                                ELSE {destVols})
                              /\ End("raised")
                 ELSE /\ log' = asked
                      /\ pc' = "check_today"
                      /\ UNCHANGED <<result, backups, destVols>>
  /\ UNCHANGED <<containers, vol, backup_failed, env>>

\* 4. check_today_exists() and the return on should_proceed = False
check_today_exists ==
  /\ pc = "check_today"
  /\ IF Today \in backups
     THEN \E answer \in Answers :
          LET response == Response(answer) IN
          /\ lastInput' = answer
          /\ log' = Append(log, <<"prompt", "overwrite", response>>)
          /\ IF response # <<"y">>
             THEN End("ret0")
             ELSE pc' = "confirm" /\ UNCHANGED result
     ELSE /\ pc' = "confirm"
          /\ UNCHANGED <<result, lastInput, log>>
  /\ UNCHANGED <<backups, destVols, containers, vol, backup_failed, env>>

\* A mutant of ConfirmProceed: the containers are stopped before asking.
ConfirmAfterStop ==
  /\ pc = "confirm"
  /\ \E answer \in Answers :
     LET response == Response(answer) IN
     /\ lastInput' = answer
     /\ log' = Append(log, <<"prompt", "proceed", response>>)
     /\ containers' = "down"
     /\ IF response = <<"n">>
        THEN End("ret0")
        ELSE pc' = "stop" /\ UNCHANGED result
  /\ UNCHANGED <<backups, destVols, vol, backup_failed, env>>

\* 5. Confirm before proceeding
ConfirmProceed ==
  /\ pc = "confirm"
  /\ \E answer \in Answers :
     LET response == Response(answer) IN
     /\ lastInput' = answer
     /\ log' = Append(log, <<"prompt", "proceed", response>>)
     /\ IF response = <<"n">>
        THEN End("ret0")
        ELSE pc' = "stop" /\ UNCHANGED result
  /\ UNCHANGED <<backups, destVols, containers, vol, backup_failed, env>>

\* 6. stop_immich(): docker compose stop, check=True. A failed stop may have
\* stopped some of the containers.
stop_immich ==
  /\ pc = "stop"
  /\ \E ok \in BOOLEAN :
     /\ log' = Append(log, <<"docker", "stop", ok>>)
     /\ containers' \in (IF ok THEN {"down"} ELSE {containers, "down"})
     /\ IF ok THEN pc' = "mkdir" /\ UNCHANGED result ELSE End("raised")
  /\ UNCHANGED <<backups, destVols, vol, backup_failed, lastInput, env>>

\* run_backup(): dest.mkdir(parents=True, exist_ok=True). An error here is
\* caught by main()'s except clause, which sets backup_failed.
run_backup_mkdir ==
  /\ pc = "mkdir"
  /\ IF Today \in backups
     THEN /\ log' = Append(log, <<"mkdir", Today, TRUE>>)
          /\ pc' = "sync"
          /\ UNCHANGED <<backups, destVols, backup_failed>>
     ELSE \E ok \in BOOLEAN :
          /\ log' = Append(log, <<"mkdir", Today, ok>>)
          /\ IF ok
             THEN /\ backups' = backups \cup {Today}
                  /\ destVols' = NoVolumes
                  /\ pc' = "sync"
                  /\ UNCHANGED backup_failed
             ELSE /\ backup_failed' = TRUE
                  /\ pc' = "cleanup"
                  /\ UNCHANGED <<backups, destVols>>
  /\ UNCHANGED <<result, containers, vol, lastInput, env>>

\* A mutant of run_backup_sync: check=True is missing, so a failed rsync does
\* not raise and the loop goes on to the next volume.
run_backup_sync_unchecked ==
  /\ pc = "sync"
  /\ LET v == VOLUMES_TO_BACKUP[vol] IN
     IF ~source[v].exists
     THEN UNCHANGED <<destVols, log>>
     ELSE \E ok \in BOOLEAN :
          /\ log' = Append(log, <<"rsync", v, ok>>)
          /\ destVols' \in
               {[destVols EXCEPT ![v] = c] :
                  c \in (IF ok THEN {Rsync(source[v], destVols[v])}
                         ELSE RsyncPartial(source[v], destVols[v]))}
  /\ IF vol < Len(VOLUMES_TO_BACKUP)
     THEN vol' = vol + 1 /\ pc' = "sync"
     ELSE vol' = vol /\ pc' = "cleanup"
  /\ UNCHANGED <<result, backups, containers, backup_failed, lastInput, env>>

\* run_backup(): one turn of the loop over VOLUMES_TO_BACKUP. A failed rsync
\* raises; main()'s except clause sets backup_failed and the finally block runs.
run_backup_sync ==
  /\ pc = "sync"
  /\ LET v == VOLUMES_TO_BACKUP[vol]
         next == IF vol < Len(VOLUMES_TO_BACKUP) THEN "sync" ELSE "cleanup"
         step == IF vol < Len(VOLUMES_TO_BACKUP) THEN vol + 1 ELSE vol
     IN
     IF ~source[v].exists
     THEN /\ pc' = next
          /\ vol' = step
          /\ UNCHANGED <<destVols, backup_failed, log>>
     ELSE \E ok \in BOOLEAN :
          /\ log' = Append(log, <<"rsync", v, ok>>)
          /\ IF ok
             THEN /\ destVols' =
                       [destVols EXCEPT ![v] = Rsync(source[v], destVols[v])]
                  /\ pc' = next
                  /\ vol' = step
                  /\ UNCHANGED backup_failed
             ELSE /\ destVols' \in
                       {[destVols EXCEPT ![v] = c] :
                          c \in RsyncPartial(source[v], destVols[v])}
                  /\ backup_failed' = TRUE
                  /\ pc' = "cleanup"
                  /\ UNCHANGED vol
  /\ UNCHANGED <<result, backups, containers, lastInput, env>>

\* A mutant of Cleanup: the test of backup_failed is missing.
CleanupAlways ==
  /\ pc = "cleanup"
  /\ IF Today \in backups
     THEN \E ok \in BOOLEAN :
          /\ log' = Append(log, <<"rmtree", Today, ok>>)
          /\ IF ok
             THEN /\ backups' = backups \ {Today}
                  /\ destVols' = NoVolumes
                  /\ pc' = "start"
                  /\ UNCHANGED result
             ELSE /\ backups' = backups
                  /\ destVols' \in RmtreePartial(destVols)
                  /\ End("raised")
     ELSE /\ pc' = "start"
          /\ UNCHANGED <<result, backups, destVols, log>>
  /\ UNCHANGED <<containers, vol, backup_failed, lastInput, env>>

\* The finally block, first statement: the failure cleanup. An error raised
\* by shutil.rmtree leaves the finally block at once.
Cleanup ==
  /\ pc = "cleanup"
  /\ IF backup_failed /\ Today \in backups
     THEN \E ok \in BOOLEAN :
          /\ log' = Append(log, <<"rmtree", Today, ok>>)
          /\ IF ok
             THEN /\ backups' = backups \ {Today}
                  /\ destVols' = NoVolumes
                  /\ pc' = "start"
                  /\ UNCHANGED result
             ELSE /\ backups' = backups
                  /\ destVols' \in RmtreePartial(destVols)
                  /\ End("raised")
     ELSE /\ pc' = "start"
          /\ UNCHANGED <<result, backups, destVols, log>>
  /\ UNCHANGED <<containers, vol, backup_failed, lastInput, env>>

\* A mutant of start_immich: check=True is missing, a failed start is ignored.
start_immich_unchecked ==
  /\ pc = "start"
  /\ \E ok \in BOOLEAN :
     /\ log' = Append(log, <<"docker", "start", ok>>)
     /\ containers' \in (IF ok THEN {"up"} ELSE {containers, "up"})
     /\ IF backup_failed
        THEN End("raised")
        ELSE pc' = "final" /\ UNCHANGED result
  /\ UNCHANGED <<backups, destVols, vol, backup_failed, lastInput, env>>

\* The finally block, last statement: start_immich(), docker compose start,
\* check=True. After it the error run_backup raised, if any, goes on.
start_immich ==
  /\ pc = "start"
  /\ \E ok \in BOOLEAN :
     /\ log' = Append(log, <<"docker", "start", ok>>)
     /\ containers' \in (IF ok THEN {"up"} ELSE {containers, "up"})
     /\ IF ~ok \/ backup_failed
        THEN End("raised")
        ELSE pc' = "final" /\ UNCHANGED result
  /\ UNCHANGED <<backups, destVols, vol, backup_failed, lastInput, env>>

\* 7. show_backup_stats(); show_disk_stats(); return 0
ShowFinal ==
  /\ pc = "final"
  /\ End("ret0")
  /\ UNCHANGED <<backups, destVols, containers, vol, backup_failed, lastInput,
                 log, env>>

Next ==
  \/ CheckRoot
  \/ CheckMount
  \/ ShowInventory
  \/ maybe_delete_oldest
  \/ check_today_exists
  \/ ConfirmProceed
  \/ stop_immich
  \/ run_backup_mkdir
  \/ run_backup_sync
  \/ Cleanup
  \/ start_immich
  \/ ShowFinal

Spec == Init /\ [][Next]_vars

\* ------------------------------------------------------------ reading the log
Entries == 1..Len(log)

IsCommand(i, kind, what) == log[i][1] = kind /\ log[i][2] = what
Succeeded(i, kind, what) == IsCommand(i, kind, what) /\ log[i][3]
Failed(i, kind, what) == IsCommand(i, kind, what) /\ ~log[i][3]

StopInvoked == \E i \in Entries : IsCommand(i, "docker", "stop")
StopSucceeded == \E i \in Entries : Succeeded(i, "docker", "stop")
StopFailed == \E i \in Entries : Failed(i, "docker", "stop")
StartInvoked == \E i \in Entries : IsCommand(i, "docker", "start")
StartSucceeded == \E i \in Entries : Succeeded(i, "docker", "start")
StartFailed == \E i \in Entries : Failed(i, "docker", "start")
RsyncFailed == \E i \in Entries : log[i][1] = "rsync" /\ ~log[i][3]
MkdirFailed == \E i \in Entries : log[i][1] = "mkdir" /\ ~log[i][3]
CopyStep(i) == log[i][1] \in {"rsync", "mkdir"}

\* The prompt `which` was shown and the answer, stripped and lowered, was r.
Answered(which, r) ==
  \E i \in Entries : IsCommand(i, "prompt", which) /\ log[i][3] = r
Prompted(which) == \E i \in Entries : IsCommand(i, "prompt", which)
IsDeletePrompt(e) == e[1] = "prompt" /\ e[2] = "delete"

\* The lexicographically smallest name of a non-empty set of names.
LexMin(S) == CHOOSE x \in S : \A y \in S : LexLeq(x, y)

\* Answers that are "y", or "n", up to case and surrounding whitespace, and
\* the answers that mean no.
SaysY == {<<"y">>, <<" ", "Y", " ">>}
SaysN == {<<"n">>, <<"N">>}
MeansNo == SaysN \cup {<<"n", "o">>}

Done == pc = "done"

\* ------------------------------------------------------------ claims

\* C1: in every run in which docker compose stop has returned, docker compose
\* start is invoked before main() ends, whatever run_backup and the failure
\* cleanup do.
C1_RestartAlwaysAttempted ==
  (Done /\ StopSucceeded) => StartInvoked

\* C2: when the process is not root or MOUNT_POINT is not a mount, main()
\* gets no further than the two checks and returns 1: no prompt is shown, no
\* command is run, and the backup directories and the containers are as they
\* were.
C2_PreflightFailureTouchesNothing ==
  (euid # 0 \/ ~mounted) =>
    /\ pc \in {"check_root", "check_mount", "done"}
    /\ (Done => result = "ret1")
    /\ log = <<>>
    /\ backups = backups0
    /\ destVols = destVols0
    /\ containers = containers0

C2_Witness ==
  Done /\ result = "ret1" /\ euid = 0 /\ ~mounted /\ backups # {}

\* C3: if an rsync failed, then when main() ends today's directory does not
\* exist, docker compose start has been run and succeeded, and main() ended
\* with the error, not with a return value.
C3_FailedCopyCleanedAndRestarted ==
  (Done /\ RsyncFailed) =>
    /\ Today \notin backups
    /\ StartSucceeded
    /\ result = "raised"

\* C4 as stated: after the answer "n" to the proceed prompt the backup
\* directories, the source volumes and the containers are as they were when
\* the run started, and main() returns 0.
C4_DeclineLeavesAllAsAtStart ==
  (Done /\ Answered("proceed", <<"n">>)) =>
    /\ backups = backups0
    /\ destVols = destVols0
    /\ source = source0
    /\ containers = containers0
    /\ result = "ret0"

\* C4 as amended: after the answer "n" to the proceed prompt main() returns
\* 0, the source volumes and the containers are as they were when the run
\* started, and so are the backup directories except for the oldest one when
\* the delete prompt of the same run was answered "y".
C4_DeclineKeepsAllButPrunedOldest ==
  (Done /\ Answered("proceed", <<"n">>)) =>
    LET pruned == Answered("delete", <<"y">>)
        oldest == LexMin(backups0)
    IN  /\ backups = IF pruned THEN backups0 \ {oldest} ELSE backups0
        /\ destVols = IF pruned /\ oldest = Today THEN NoVolumes ELSE destVols0
        /\ source = source0
        /\ containers = containers0
        /\ result = "ret0"

C4_Witness ==
  /\ Done
  /\ Answered("proceed", <<"n">>)
  /\ Answered("delete", <<"y">>)
  /\ Answered("overwrite", <<"y">>)
  /\ containers = "up"

C6_EveryVolumeMirrored ==
  (result = "ret0" /\ StopSucceeded) =>
    /\ Today \in backups
    /\ \A v \in Volumes :
         destVols[v].exists /\ destVols[v].files = source[v].files

\* C6 as amended: after a run that performed the backup and returned 0,
\* today's directory exists and holds, for every name of VOLUMES_TO_BACKUP
\* whose source directory exists, a subdirectory of that name whose files are
\* the files of the source volume (a file the source no longer has is gone);
\* a volume whose source directory does not exist is skipped, so its
\* subdirectory is what it was before the run.
C6_PresentVolumesMirrored ==
  (result = "ret0" /\ StopSucceeded) =>
    /\ Today \in backups
    /\ \A v \in Volumes :
         IF source[v].exists
         THEN destVols[v] = source[v]
         ELSE destVols[v] =
                IF /\ Today \in backups0
                   /\ ~(Answered("delete", <<"y">>) /\ LexMin(backups0) = Today)
                THEN destVols0[v] ELSE Absent

C6_Witness ==
  /\ result = "ret0"
  /\ StopSucceeded
  /\ Today \in backups0
  /\ \E v \in Volumes :
       /\ source[v].exists
       /\ destVols0[v].exists
       /\ destVols0[v].files \ source[v].files # {}
       /\ destVols[v] = source[v]

\* C7 as stated: at the delete prompt and at the overwrite prompt only the
\* answer "y" takes the action and every other answer, the empty one
\* included, counts as no (at the overwrite prompt: the run is cancelled); at
\* the proceed prompt the empty answer counts as yes and every answer that
\* means no ("n", "no") cancels the backup without stopping the containers.
C7_PromptDefaults ==
  [][/\ (pc = "delete_oldest" /\ log' # log /\ lastInput' \notin SaysY)
          => backups' = backups /\ pc' = "check_today"
     /\ (pc = "check_today" /\ log' # log /\ lastInput' \notin SaysY)
          => pc' = "done" /\ result' = "ret0"
     /\ (pc = "check_today" /\ log' # log /\ lastInput' \in SaysY)
          => pc' = "confirm"
     /\ (pc = "confirm" /\ lastInput' = <<>>) => pc' = "stop"
     /\ (pc = "confirm" /\ lastInput' \in MeansNo)
          => /\ pc' = "done" /\ result' = "ret0"
             /\ containers' = containers
             /\ ~StopInvoked']_vars

\* C7 as amended: at the delete prompt and at the overwrite prompt only the
\* answer "y" (up to case and surrounding whitespace) takes the action and
\* every other answer, the empty one included, counts as no (at the overwrite
\* prompt: the run is cancelled); at the proceed prompt only the answer "n"
\* (up to case and surrounding whitespace) cancels the backup, without
\* stopping the containers, and every other answer, the empty one and "no"
\* included, counts as yes.
C7_OnlyNCancels ==
  [][/\ (pc = "delete_oldest" /\ log' # log /\ lastInput' \notin SaysY)
          => backups' = backups /\ pc' = "check_today"
     /\ (pc = "check_today" /\ log' # log /\ lastInput' \notin SaysY)
          => pc' = "done" /\ result' = "ret0"
     /\ (pc = "check_today" /\ log' # log /\ lastInput' \in SaysY)
          => pc' = "confirm"
     /\ (pc = "confirm" /\ lastInput' \notin SaysN) => pc' = "stop"
     /\ (pc = "confirm" /\ lastInput' \in SaysN)
          => /\ pc' = "done" /\ result' = "ret0"
             /\ containers' = containers
             /\ ~StopInvoked']_vars

C7_Witness ==
  /\ pc = "stop"
  /\ lastInput = <<"n", "o">>
  /\ Answered("overwrite", <<"y">>)
  /\ Answered("delete", << >>)

\* C8: main() returns 0 exactly on a completed backup or a cancellation
\* (overwrite declined, proceed answered "n"), returns 1 exactly when the
\* root check or the mount check fails, and ends with the error, not with 0
\* or 1, whenever docker compose stop, an rsync or docker compose start
\* failed.
C8_ExitStatus ==
  Done =>
    LET completed == /\ StopSucceeded /\ StartSucceeded
                     /\ ~RsyncFailed /\ ~MkdirFailed
        cancelled == \/ Answered("proceed", <<"n">>)
                     \/ \E r \in {Response(a) : a \in Answers} \ {<<"y">>} :
                          Answered("overwrite", r)
    IN  /\ result \in {"ret0", "ret1", "raised"}
        /\ result = "ret0" <=> (completed \/ cancelled)
        /\ result = "ret1" <=> (euid # 0 \/ ~mounted)
        /\ (StopFailed \/ RsyncFailed \/ StartFailed) => result = "raised"

C8_Witness ==
  /\ Done
  /\ result = "raised"
  /\ StartFailed
  /\ ~RsyncFailed
  /\ ~MkdirFailed

\* C9: every rsync and the creation of today's directory come after a
\* docker compose stop that succeeded and before docker compose start; when
\* the stop failed nothing is copied and no directory is created; after the
\* first rsync that failed no further volume is copied.
C9_CommandOrder ==
  /\ \A i \in Entries : CopyStep(i) =>
       /\ \E j \in 1..(i - 1) : Succeeded(j, "docker", "stop")
       /\ \A k \in 1..i : ~IsCommand(k, "docker", "start")
  /\ StopFailed =>
       /\ \A i \in Entries : ~CopyStep(i)
       /\ backups \subseteq backups0
  /\ \A i \in Entries : (log[i][1] = "rsync" /\ ~log[i][3]) =>
       \A j \in (i + 1)..Len(log) : log[j][1] # "rsync"

C9_Witness ==
  /\ Done
  /\ StartInvoked
  /\ \E i \in Entries : Failed(i, "rsync", VOLUMES_TO_BACKUP[1])
  /\ \A v \in Volumes : source[v].exists

\* C10: a backup directory that was there when the run started is gone only
\* when (1) it had the lexicographically smallest name, there were more than
\* MAX_BACKUPS directories and the delete prompt was answered "y", or (2) it
\* is today's directory, the overwrite prompt was answered "y", the backup
\* failed and the failure cleanup removed it; so at most two are gone.
C10_RemovalsAreConfirmed ==
  /\ \A d \in backups0 \ backups :
       \/ /\ d = LexMin(backups0)
          /\ Cardinality(backups0) > MAX_BACKUPS
          /\ Answered("delete", <<"y">>)
       \/ /\ d = Today
          /\ Answered("overwrite", <<"y">>)
          /\ backup_failed
          /\ \E i \in Entries : log[i] = <<"rmtree", Today, TRUE>>
  /\ Cardinality(backups0 \ backups) <= 2

C10_Witness ==
  /\ Done
  /\ Cardinality(backups0 \ backups) = 2
  /\ StartSucceeded

====
